---- MODULE Spec2Model ----
(***************************************************************************)
(* Responsive code formatting (responsive-code.js): indentation            *)
(* compression and language-aware line breaking of highlighted <pre><code> *)
(* blocks, with snapshot/restore of the original markup.                   *)
(*                                                                         *)
(* Text is a sequence of one-character strings.  Markup (an innerHTML      *)
(* string) is a sequence of tokens: a character, an entity ("&amp;",       *)
(* "&lt;", "&gt;"), an opening tag ("<span ...>") or "</span>".            *)
(***************************************************************************)
EXTENDS Integers, Sequences, FiniteSets, TLC

\* ---- Tuning constants ---------------------------------------------------
DEBOUNCE_MS == 150
MAX_LINES == 500
MAX_SPLITS == 10
MAX_COLS == 200
FALLBACK_COLS == 80
DEFAULT_INDENT_STEP == 4
CONT_INDENT == 4
MIN_COMPRESSED_STEP == 2
COMPRESS_THRESHOLD == 55
COMPRESS_AGGRESSIVE == 35
BACKSLASH_RESERVE == 2
PAREN_OFFSET == 1
LD_COLON_OFFSET == 2

SKIP_LANGS == {"asm", "nasm", "gas"}
SPACE_BREAK_LANGS == {"bash", "dockerfile", "nix"}
BACKSLASH_LANGS == {"bash", "dockerfile"}
OPENERS == {"(", "[", "{"}
CLOSERS == {")", "]", "}"}

\* OPENERS[open]: the closer of an opener
CloserOf(c) == CASE c = "(" -> ")" [] c = "[" -> "]" [] c = "{" -> "}" [] OTHER -> ""

\* CLOSERS[close]: the opener of a closer
OpenerOf(c) == CASE c = ")" -> "(" [] c = "]" -> "[" [] c = "}" -> "{" [] OTHER -> ""

\* ---- Break rules --------------------------------------------------------
Rule(p, m, s) == [pat |-> p, mode |-> m, sep |-> s]

c_like ==
  << Rule(<<"{">>, "after", FALSE),
     Rule(<<"}">>, "before", FALSE),
     Rule(<<" ", "=", " ">>, "after", FALSE),
     Rule(<<" ", "|", "|", " ">>, "before", FALSE),
     Rule(<<" ", "&", "&", " ">>, "before", FALSE) >>

COMMON_RULES ==
  << Rule(<<",", " ">>, "after", TRUE),
     Rule(<<";", " ">>, "after", TRUE),
     Rule(<<"(">>, "after", FALSE),
     Rule(<<")">>, "before", FALSE) >>

RULES_c ==
  c_like \o << Rule(<<" ", "<", "<", " ">>, "before", FALSE),
               Rule(<<" ", ">", ">", " ">>, "before", FALSE),
               Rule(<<"-", ">">>, "before", FALSE) >> \o COMMON_RULES

RULES_cpp ==
  c_like \o << Rule(<<" ", "<", "<", " ">>, "before", FALSE),
               Rule(<<" ", ">", ">", " ">>, "before", FALSE),
               Rule(<<"-", ">">>, "before", FALSE),
               Rule(<<":", ":">>, "before", FALSE) >> \o COMMON_RULES

RULES_h == c_like \o COMMON_RULES

RULES_cmake ==
  << Rule(<<" ", "-">>, "before", TRUE),
     Rule(<<" ", "\"">>, "before", TRUE) >> \o COMMON_RULES

RULES_ld ==
  << Rule(<<",", " ">>, "before", TRUE),
     Rule(<<":", " ">>, "after", FALSE),
     Rule(<<" ", ">", " ">>, "before", FALSE) >> \o COMMON_RULES

\* RULES[lang] || COMMON_RULES
RULES(lang) ==
  CASE lang = "c" -> RULES_c
    [] lang = "cpp" -> RULES_cpp
    [] lang = "h" -> RULES_h
    [] lang = "cmake" -> RULES_cmake
    [] lang = "ld" -> RULES_ld
    [] OTHER -> COMMON_RULES

SPACE_RULES == << Rule(<<" ">>, "before", TRUE) >>

\* ---- JavaScript string primitives ---------------------------------------
Min(a, b) == IF a < b THEN a ELSE b
Max(a, b) == IF a > b THEN a ELSE b

\* \s of a JavaScript regular expression, over the characters modelled
IsWhite(c) == c \in {" ", "\t", "\n"}

\* text.search(/\S/): 0-based index of the first non-whitespace character, -1 if none
SearchNonWhite(text) ==
  LET idx == {i \in 1..Len(text) : ~IsWhite(text[i])}
  IN IF idx = {} THEN -1 ELSE (CHOOSE i \in idx : \A j \in idx : i <= j) - 1

\* text.indexOf(pat, from): 0-based, -1 if absent
IndexOf(text, pat, from) ==
  LET idx == {i \in Max(from, 0)..(Len(text) - Len(pat)) :
                \A k \in 1..Len(pat) : text[i + k] = pat[k]}
  IN IF idx = {} THEN -1 ELSE CHOOSE i \in idx : \A j \in idx : i <= j

\* text.lastIndexOf(pat, from): 0-based, -1 if absent (a negative from counts as 0)
LastIndexOf(text, pat, from) ==
  LET idx == {i \in 0..Min(Max(from, 0), Len(text) - Len(pat)) :
                \A k \in 1..Len(pat) : text[i + k] = pat[k]}
  IN IF idx = {} THEN -1 ELSE CHOOSE i \in idx : \A j \in idx : i >= j

\* " ".repeat(n)
Spaces(n) == [i \in 1..n |-> " "]

\* text.slice(from) and text.slice(0, to), 0-based offsets
SliceFrom(text, from) == SubSeq(text, from + 1, Len(text))
SliceTo(text, to) == SubSeq(text, 1, to)

\* text.split("\n")
RECURSIVE SplitNL(_)
SplitNL(text) ==
  LET idx == {i \in 1..Len(text) : text[i] = "\n"}
  IN IF idx = {} THEN <<text>>
     ELSE LET i == CHOOSE x \in idx : \A y \in idx : x <= y
          IN <<SubSeq(text, 1, i - 1)>> \o SplitNL(SubSeq(text, i + 1, Len(text)))

RECURSIVE Concat(_)
Concat(ss) == IF ss = <<>> THEN <<>> ELSE Head(ss) \o Concat(Tail(ss))

\* pieces.join("\n")
RECURSIVE JoinNL(_)
JoinNL(ss) ==
  IF ss = <<>> THEN <<>>
  ELSE IF Len(ss) = 1 THEN ss[1]
  ELSE ss[1] \o <<"\n">> \o JoinNL(Tail(ss))

\* ---- Segment helpers ----------------------------------------------------
Seg(t, o) == [text |-> t, open |-> o, close |-> IF o = "" THEN "" ELSE "</span>"]

plain(line) == Concat([i \in 1..Len(line) |-> line[i].text])

leadingSpaces(line) == Max(0, SearchNonWhite(plain(line)))

\* .replace(/&/g, "&amp;").replace(/</g, "&lt;").replace(/>/g, "&gt;")
Escape(text) ==
  [i \in 1..Len(text) |->
     CASE text[i] = "&" -> "&amp;"
       [] text[i] = "<" -> "&lt;"
       [] text[i] = ">" -> "&gt;"
       [] OTHER -> text[i]]

SegHTML(seg) ==
  IF seg.open # "" THEN <<seg.open>> \o Escape(seg.text) \o <<seg.close>>
  ELSE Escape(seg.text)

toHTML(line) == Concat([i \in 1..Len(line) |-> SegHTML(line[i])])

\* number of leading " " characters of a text (while (j < t.length && t[j] === " ") j++)
CountSp(t) ==
  LET idx == {i \in 1..Len(t) : t[i] # " "}
  IN IF idx = {} THEN Len(t) ELSE (CHOOSE i \in idx : \A j \in idx : i <= j) - 1

RECURSIVE stripLeading(_)
stripLeading(line) ==
  IF line = <<>> THEN <<>>
  ELSE LET t == line[1].text
           j == CountSp(t)
       IN IF j < Len(t)
          THEN <<Seg(SliceFrom(t, j), line[1].open)>> \o Tail(line)
          ELSE stripLeading(Tail(line))

\* the loop of removeNSpaces, from segment i with rem spaces still to remove
RECURSIVE RemoveLoop(_, _, _)
RemoveLoop(line, i, rem) ==
  IF i > Len(line) THEN <<>>
  ELSE IF rem > 0
  THEN LET t == line[i].text
           cut == Min(CountSp(t), rem)
           rest == SliceFrom(t, cut)
           kept == IF rest # <<>> \/ line[i].open # ""
                   THEN <<Seg(rest, line[i].open)>> ELSE <<>>
       IN kept \o RemoveLoop(line, i + 1, rem - cut)
  ELSE <<line[i]>> \o RemoveLoop(line, i + 1, rem)

removeNSpaces(line, n) == IF n <= 0 THEN line ELSE RemoveLoop(line, 1, n)

\* the loop of splitAt: returns <<before, after>>
RECURSIVE SplitLoop(_, _, _, _)
SplitLoop(line, i, pos, count) ==
  IF i > Len(line) THEN <<<<>>, <<>>>>
  ELSE LET seg == line[i] IN
       IF count + Len(seg.text) <= pos
       THEN IF count + Len(seg.text) = pos
            THEN <<<<seg>>, SubSeq(line, i + 1, Len(line))>>
            ELSE LET r == SplitLoop(line, i + 1, pos, count + Len(seg.text))
                 IN <<<<seg>> \o r[1], r[2]>>
       ELSE LET at == pos - count
            IN << <<Seg(SliceTo(seg.text, at), seg.open)>>,
                  <<Seg(SliceFrom(seg.text, at), seg.open)>>
                    \o SubSeq(line, i + 1, Len(line)) >>

splitAt(line, pos) == SplitLoop(line, 1, pos, 0)

\* prependPad without the stripping of the line's own leading spaces
prependPad_keep(line, n) == <<Seg(Spaces(n), "")>> \o line

prependPad(line, n) == <<Seg(Spaces(n), "")>> \o stripLeading(line)

\* ---- Line breaking ------------------------------------------------------

\* the body of the loop of singleArgContainer at offset i;
\* st = [done, res, depth], done once the loop has returned res
SingleArgStep(text, open, close, i, st) ==
  LET c == text[i + 1] IN
  IF st.done THEN st
  ELSE IF c = open THEN [st EXCEPT !.depth = st.depth + 1]
  ELSE IF c = close
  THEN IF st.depth - 1 = 0 THEN [done |-> TRUE, res |-> TRUE, depth |-> 0]
       ELSE [st EXCEPT !.depth = st.depth - 1]
  ELSE IF c = "," /\ st.depth = 1 THEN [done |-> TRUE, res |-> FALSE, depth |-> 1]
  ELSE st

\* the loop of singleArgContainer over offsets lo..hi-1, ascending
\* (the range is halved to keep the evaluation shallow)
RECURSIVE SingleArgLoop(_, _, _, _, _, _)
SingleArgLoop(text, open, close, lo, hi, st) ==
  IF lo >= hi \/ st.done THEN st
  ELSE IF hi - lo = 1 THEN SingleArgStep(text, open, close, lo, st)
  ELSE LET mid == (lo + hi) \div 2
           left == SingleArgLoop(text, open, close, lo, mid, st)
       IN IF left.done THEN left
          ELSE SingleArgLoop(text, open, close, mid, hi, left)

singleArgContainer(text, openPos) ==
  LET open == text[openPos + 1]
      close == CloserOf(open)
  IN IF close = "" THEN FALSE
     ELSE LET st == SingleArgLoop(text, open, close, openPos, Len(text),
                                  [done |-> FALSE, res |-> TRUE, depth |-> 0])
          IN IF st.done THEN st.res ELSE TRUE

\* the body of the loop of findMatchingOpen at offset i;
\* st = [done, res, depth], done once the loop has returned res
MatchOpenStep(text, open, close, i, st) ==
  LET c == text[i + 1] IN
  IF st.done THEN st
  ELSE IF c = close THEN [st EXCEPT !.depth = st.depth + 1]
  ELSE IF c = open
  THEN IF st.depth - 1 = 0 THEN [done |-> TRUE, res |-> i, depth |-> 0]
       ELSE [st EXCEPT !.depth = st.depth - 1]
  ELSE st

\* the loop of findMatchingOpen over offsets hi-1 down to lo, descending
RECURSIVE MatchOpenLoop(_, _, _, _, _, _)
MatchOpenLoop(text, open, close, lo, hi, st) ==
  IF lo >= hi \/ st.done THEN st
  ELSE IF hi - lo = 1 THEN MatchOpenStep(text, open, close, lo, st)
  ELSE LET mid == (lo + hi) \div 2
           right == MatchOpenLoop(text, open, close, mid, hi, st)
       IN IF right.done THEN right
          ELSE MatchOpenLoop(text, open, close, lo, mid, right)

findMatchingOpen(text, closePos) ==
  LET close == text[closePos + 1]
      open == OpenerOf(close)
  IN IF open = "" THEN -1
     ELSE LET st == MatchOpenLoop(text, open, close, 0, closePos + 1,
                                  [done |-> FALSE, res |-> -1, depth |-> 0])
          IN IF st.done THEN st.res ELSE -1

\* ---- Chunk scanner ------------------------------------------------------
NullPs == [depth |-> -1, col |-> -1]

\* the rule table when SPACE_BREAK_LANGS is not consulted
ScanRules_table(lang) == RULES(lang)

\* the rule table scanChunk uses for a language
ScanRules(lang) == IF lang \in SPACE_BREAK_LANGS THEN SPACE_RULES ELSE RULES(lang)

\* does pat match text at 0-based offset i (text[i + k] !== pat[k] fails past the end)
PatAt(text, i, pat) ==
  /\ i + Len(pat) <= Len(text)
  /\ \A k \in 1..Len(pat) : text[i + k] = pat[k]

\* the single-argument-container skip of a one-character bracket rule
SingleArgSkip(text, i, pat) ==
  IF Len(pat) = 1 /\ pat[1] \in OPENERS THEN singleArgContainer(text, i)
  ELSE IF Len(pat) = 1 /\ pat[1] \in CLOSERS
  THEN LET op == findMatchingOpen(text, i)
       IN op >= 0 /\ singleArgContainer(text, op)
  ELSE FALSE

\* RuleStep keeping the leftmost candidate within the budget, not the rightmost
RuleStep_leftmost(text, i, rl, floor, maxCols, cur, prev, acc) ==
  IF ~PatAt(text, i, rl.pat) THEN acc
  ELSE LET bp == IF rl.mode = "after" THEN i + Len(rl.pat) ELSE i IN
       IF bp <= floor \/ bp >= Len(text) THEN acc
       ELSE IF SingleArgSkip(text, i, rl.pat) THEN acc
       ELSE LET sepPos == IF rl.sep /\ bp > acc.lastSepPos THEN bp ELSE acc.lastSepPos
            IN IF bp <= maxCols /\ acc.best < 0
               THEN [best |-> bp,
                     bestPs |-> IF rl.mode = "before" /\ Len(rl.pat) = 1
                                    /\ rl.pat[1] \in CLOSERS
                                THEN prev ELSE cur,
                     lastSepPos |-> sepPos]
               ELSE [acc EXCEPT !.lastSepPos = sepPos]

\* RuleStep with the budget test off by one (bp <= maxCols + 1)
RuleStep_wide(text, i, rl, floor, maxCols, cur, prev, acc) ==
  IF ~PatAt(text, i, rl.pat) THEN acc
  ELSE LET bp == IF rl.mode = "after" THEN i + Len(rl.pat) ELSE i IN
       IF bp <= floor \/ bp >= Len(text) THEN acc
       ELSE IF SingleArgSkip(text, i, rl.pat) THEN acc
       ELSE LET sepPos == IF rl.sep /\ bp > acc.lastSepPos THEN bp ELSE acc.lastSepPos
            IN IF bp <= maxCols + 1 /\ bp > acc.best
               THEN [best |-> bp,
                     bestPs |-> IF rl.mode = "before" /\ Len(rl.pat) = 1
                                    /\ rl.pat[1] \in CLOSERS
                                THEN prev ELSE cur,
                     lastSepPos |-> sepPos]
               ELSE [acc EXCEPT !.lastSepPos = sepPos]

\* one pass of the inner `for r` loop body for rule rl at offset i;
\* acc = [best, bestPs, lastSepPos]; cur / prev are the bracket states
\* after / before the bracket update of the character at i
RuleStep(text, i, rl, floor, maxCols, cur, prev, acc) ==
  IF ~PatAt(text, i, rl.pat) THEN acc
  ELSE LET bp == IF rl.mode = "after" THEN i + Len(rl.pat) ELSE i IN
       IF bp <= floor \/ bp >= Len(text) THEN acc
       ELSE IF SingleArgSkip(text, i, rl.pat) THEN acc
       ELSE LET sepPos == IF rl.sep /\ bp > acc.lastSepPos THEN bp ELSE acc.lastSepPos
            IN IF bp <= maxCols /\ bp > acc.best
               THEN [best |-> bp,
                     bestPs |-> IF rl.mode = "before" /\ Len(rl.pat) = 1
                                    /\ rl.pat[1] \in CLOSERS
                                THEN prev ELSE cur,
                     lastSepPos |-> sepPos]
               ELSE [acc EXCEPT !.lastSepPos = sepPos]

\* the inner `for r` loop from rule r on (acc.best is read first, so that the
\* result of each pass is computed before the next pass starts)
RECURSIVE RuleLoop(_, _, _, _, _, _, _, _, _)
RuleLoop(text, i, rules, r, floor, maxCols, cur, prev, acc) ==
  IF acc.best < -1 \/ r > Len(rules) THEN acc
  ELSE RuleLoop(text, i, rules, r + 1, floor, maxCols, cur, prev,
                RuleStep(text, i, rules[r], floor, maxCols, cur, prev, acc))

\* the bracket update of one character
BracketUpdate(c, i, ps) ==
  IF c \in OPENERS THEN [depth |-> ps.depth + 1, col |-> i]
  ELSE IF c \in CLOSERS
  THEN IF ps.depth - 1 <= 0 THEN [depth |-> 0, col |-> -1]
       ELSE [depth |-> ps.depth - 1, col |-> ps.col]
  ELSE ps

\* the body of the `for i` loop of scanChunk at offset i;
\* st = [inStr, strChar, ps, acc]
ScanStep(text, rules, floor, maxCols, i, st) ==
  LET c == text[i + 1] IN
  IF st.inStr
  THEN IF c = st.strChar /\ (i = 0 \/ text[i] # "\\")
       THEN [st EXCEPT !.inStr = FALSE] ELSE st
  ELSE IF c = "\"" \/ c = "'"
  THEN [st EXCEPT !.inStr = TRUE, !.strChar = c]
  ELSE LET cur == BracketUpdate(c, i, st.ps)
       IN [st EXCEPT !.ps = cur,
                     !.acc = RuleLoop(text, i, rules, 1, floor, maxCols,
                                      cur, st.ps, st.acc)]

\* the `for i` loop of scanChunk over offsets lo..hi-1, in order, from state st
\* (the range is halved to keep the evaluation shallow)
RECURSIVE ScanLoop(_, _, _, _, _, _, _)
ScanLoop(text, rules, floor, maxCols, lo, hi, st) ==
  IF lo >= hi THEN st
  ELSE IF hi - lo = 1 THEN ScanStep(text, rules, floor, maxCols, lo, st)
  ELSE LET mid == (lo + hi) \div 2
           left == ScanLoop(text, rules, floor, maxCols, lo, mid, st)
       IN IF left.acc.best < -1 THEN left
          ELSE ScanLoop(text, rules, floor, maxCols, mid, hi, left)

\* Returns [bp, ps, hasArgSep]; bp = -1 stands for null
scanChunk(text, lang, floor, maxCols, initPs) ==
  LET Out(st) ==
        IF st.acc.best < 0 THEN [bp |-> -1, ps |-> NullPs, hasArgSep |-> FALSE]
        ELSE [bp |-> st.acc.best, ps |-> st.acc.bestPs,
              hasArgSep |-> st.acc.lastSepPos >= st.acc.best]
  IN Out(ScanLoop(text, ScanRules(lang), floor, maxCols, 0, Len(text),
                  [inStr |-> FALSE, strChar |-> "", ps |-> initPs,
                   acc |-> [best |-> -1, bestPs |-> NullPs, lastSepPos |-> -1]]))

defaultContIndent(lang, text, indent) ==
  IF lang = "ld"
  THEN LET colon == IndexOf(text, <<":", " ">>, 0)
       IN IF colon >= 0 THEN colon + LD_COLON_OFFSET ELSE indent + CONT_INDENT
  ELSE indent + CONT_INDENT

\* maxCols >> 1 for a non-negative column count
Half(n) == n \div 2

\* continuationIndent aligning at the opener's own column (no PAREN_OFFSET)
continuationIndent_atOpener(ps, prevDepth, indent, fallback, maxCols) ==
  LET ci == IF ps.depth > 0 /\ ps.col >= 0 THEN ps.col
            ELSE IF prevDepth > 0 /\ ps.depth = 0 THEN indent
            ELSE fallback
  IN Min(ci, Half(maxCols))

\* continuationIndent without the cap at maxCols >> 1
continuationIndent_uncapped(ps, prevDepth, indent, fallback, maxCols) ==
  IF ps.depth > 0 /\ ps.col >= 0 THEN ps.col + PAREN_OFFSET
  ELSE IF prevDepth > 0 /\ ps.depth = 0 THEN indent
  ELSE fallback

continuationIndent(ps, prevDepth, indent, fallback, maxCols) ==
  LET ci == IF ps.depth > 0 /\ ps.col >= 0 THEN ps.col + PAREN_OFFSET
            ELSE IF prevDepth > 0 /\ ps.depth = 0 THEN indent
            ELSE fallback
  IN Min(ci, Half(maxCols))

\* the column budget of breakLine
Budget(cols, lang) == IF lang \in BACKSLASH_LANGS THEN cols - BACKSLASH_RESERVE ELSE cols

\* the continuation marker appended to a piece
Marker(lang) == IF lang \in BACKSLASH_LANGS THEN <<" ", "\\">> ELSE <<>>

\* the locals of breakLine with a loop count two larger than MAX_SPLITS
BreakStart_moreSplits(line) ==
  [rem |-> line, pieces |-> <<>>, ps |-> [depth |-> 0, col |-> -1],
   splits |-> MAX_SPLITS + 2, prevLen |-> Len(plain(line)), pc |-> "loop",
   bp |-> -1, floor |-> -1, ci |-> -1, prevDepth |-> -1, hasArgSep |-> FALSE,
   accepted |-> FALSE, exit |-> ""]

\* the locals of breakLine on entry to its loop
BreakStart(line) ==
  [rem |-> line, pieces |-> <<>>, ps |-> [depth |-> 0, col |-> -1],
   splits |-> MAX_SPLITS, prevLen |-> Len(plain(line)), pc |-> "loop",
   bp |-> -1, floor |-> -1, ci |-> -1, prevDepth |-> -1, hasArgSep |-> FALSE,
   accepted |-> FALSE, exit |-> ""]

\* one iteration of the while loop of breakLine on its locals b
\* (bp, floor, ci, prevDepth, hasArgSep: the iteration's own locals, bp = -1 when
\* the scanner returned null; accepted: the iteration pushed a piece; exit: which
\* test left the loop)
BreakIter(b, cols, lang, indent, fallbackCI) ==
  LET budget == Budget(cols, lang)
      rt == plain(b.rem)
      floor == Max(0, SearchNonWhite(rt))
      \* the loop is left: by its condition, or by the break after the scan
      Leave(why, bp) ==
        [b EXCEPT !.pc = "out", !.splits = b.splits - 1, !.exit = why,
                  !.accepted = FALSE,
                  !.bp = IF why \in {"nobreak", "atend"} THEN bp ELSE b.bp,
                  !.floor = IF why \in {"nobreak", "atend"} THEN floor ELSE b.floor]
      \* pieces.push(...); rem = ...; the newLen test
      Push(result, ci, head, rem) ==
        LET newLen == Len(plain(rem))
        IN [rem |-> rem,
            pieces |-> Append(b.pieces, toHTML(head) \o Marker(lang)),
            ps |-> result.ps,
            splits |-> b.splits - 1,
            prevLen |-> IF newLen >= b.prevLen THEN b.prevLen ELSE newLen,
            pc |-> IF newLen >= b.prevLen THEN "out" ELSE "loop",
            bp |-> result.bp, floor |-> floor, ci |-> ci,
            prevDepth |-> b.ps.depth, hasArgSep |-> result.hasArgSep,
            accepted |-> TRUE,
            exit |-> IF newLen >= b.prevLen THEN "noshrink" ELSE ""]
      \* halves = splitAt(rem, bp), with the indent ci chosen
      Split(result, ci, halves) == Push(result, ci, halves[1], prependPad(halves[2], ci))
      \* the single-argument override of the indent ci0 continuationIndent gave
      Override(result, ci0) ==
        IF result.ps.depth > 0 /\ ci0 > fallbackCI /\ ~result.hasArgSep
        THEN Min(fallbackCI, Half(cols)) ELSE ci0
      \* the iteration once scanChunk has returned result
      Scanned(result) ==
        IF result.bp < 0 THEN Leave("nobreak", -1)
        ELSE IF result.bp >= Len(rt) - 1 THEN Leave("atend", result.bp)
        ELSE Split(result,
                   Override(result, continuationIndent(result.ps, b.ps.depth, indent,
                                                       fallbackCI, cols)),
                   splitAt(b.rem, result.bp))
  IN IF ~(b.splits > 0) THEN Leave("splits", -1)
     ELSE IF Len(rt) <= budget THEN Leave("fits", -1)
     ELSE Scanned(scanChunk(rt, lang, floor, budget, b.ps))

\* the while loop of breakLine from locals b (b.pc = "loop")
RECURSIVE BreakLoop(_, _, _, _, _)
BreakLoop(b, cols, lang, indent, fallbackCI) ==
  LET Again(nb) == IF nb.pc # "loop" THEN nb
                   ELSE BreakLoop(nb, cols, lang, indent, fallbackCI)
  IN Again(BreakIter(b, cols, lang, indent, fallbackCI))

\* the value breakLine returns from the locals its loop left: <<>> wrapped as
\* [null |-> TRUE] for null, else the joined markup
BreakResult(b) ==
  IF b.pieces = <<>> THEN [null |-> TRUE, html |-> <<>>]
  ELSE [null |-> FALSE, html |-> JoinNL(Append(b.pieces, toHTML(b.rem)))]

breakLine(line, cols, lang) ==
  LET text == plain(line) IN
  IF Len(text) <= Budget(cols, lang) THEN [null |-> TRUE, html |-> <<>>]
  ELSE LET indent == leadingSpaces(line)
       IN BreakResult(BreakLoop(BreakStart(line), cols, lang, indent,
                                defaultContIndent(lang, text, indent)))

\* ---- The block's DOM and its markup ------------------------------------
\* A child node of <code>: a text node (nodeType 3) or a <span> element
\* (nodeType 1) whose opening tag serialises to `open`.
TextNode(t) == [nodeType |-> 3, open |-> "", text |-> t]
SpanNode(o, t) == [nodeType |-> 1, open |-> o, text |-> t]

IsOpenTag(tok) == tok \in {"<span s1>", "<span s2>", "<span s3>", "<span probe>"}
IsCloseTag(tok) == tok = "</span>"

\* textContent of markup between tags: entities decoded
Unescape(toks) ==
  [i \in 1..Len(toks) |->
     CASE toks[i] = "&amp;" -> "&"
       [] toks[i] = "&lt;" -> "<"
       [] toks[i] = "&gt;" -> ">"
       [] OTHER -> toks[i]]

\* node.outerHTML of a span / the serialisation of a text node
OuterHTML(node) ==
  IF node.nodeType = 1 THEN <<node.open>> \o Escape(node.text) \o <<"</span>">>
  ELSE Escape(node.text)

\* the innerHTML getter of <code>
Serialize(nodes) == Concat([i \in 1..Len(nodes) |-> OuterHTML(nodes[i])])

\* first index >= from of a token satisfying open-tag (close-tag when closing), 0 if none
NextTag(markup, from, closing) ==
  LET idx == {i \in from..Len(markup) :
                IF closing THEN IsCloseTag(markup[i]) ELSE IsOpenTag(markup[i])}
  IN IF idx = {} THEN 0 ELSE CHOOSE i \in idx : \A j \in idx : i <= j

\* the innerHTML setter of <code>: the child nodes the HTML parser builds from
\* markup position `from` on (character runs become one text node each)
RECURSIVE ParseFrom(_, _)
ParseFrom(markup, from) ==
  IF from > Len(markup) THEN <<>>
  ELSE LET p == NextTag(markup, from, FALSE) IN
       IF p = 0 THEN <<TextNode(Unescape(SubSeq(markup, from, Len(markup))))>>
       ELSE LET q == NextTag(markup, p + 1, TRUE)
                e == IF q = 0 THEN Len(markup) + 1 ELSE q
                before == IF p > from
                          THEN <<TextNode(Unescape(SubSeq(markup, from, p - 1)))>>
                          ELSE <<>>
            IN before \o <<SpanNode(markup[p], Unescape(SubSeq(markup, p + 1, e - 1)))>>
                 \o ParseFrom(markup, e + 1)

Parse(markup) == ParseFrom(markup, 1)

\* the data-original attribute: absent, or present with a markup value
NoAttr == [has |-> FALSE, val |-> <<>>]
Attr(v) == [has |-> TRUE, val |-> v]

\* a <pre data-lang=...><code>...</code></pre> block
Block(l, n) == [lang |-> l, nodes |-> n, orig |-> NoAttr]

\* String.prototype.toLowerCase on the language tags modelled
toLowerCase(l) ==
  CASE l = "ASM" -> "asm"
    [] l = "Nasm" -> "nasm"
    [] l = "GAS" -> "gas"
    [] l = "Bash" -> "bash"
    [] l = "C" -> "c"
    [] OTHER -> l

\* ---- Parsing ------------------------------------------------------------
\* the segments one node contributes: parts[p] of text.split("\n"), kept when
\* non-empty or when it is the first part of a span
NodeParts(node) ==
  LET open == IF node.nodeType = 1 THEN Head(OuterHTML(node)) ELSE ""
      parts == SplitNL(node.text)
  IN [p \in 1..Len(parts) |->
        IF parts[p] # <<>> \/ (p = 1 /\ open # "")
        THEN <<Seg(parts[p], open)>> ELSE <<>>]

\* the loop of extractLines from child node i on, with the lines built so far
RECURSIVE ExtractLoop(_, _, _)
ExtractLoop(nodes, i, lines) ==
  IF Len(lines) = 0 \/ i > Len(nodes) THEN lines
  ELSE LET parts == NodeParts(nodes[i])
           n == Len(lines)
           first == [lines EXCEPT ![n] = lines[n] \o parts[1]]
       IN ExtractLoop(nodes, i + 1, first \o SubSeq(parts, 2, Len(parts)))

extractLines(nodes) == ExtractLoop(nodes, 1, << <<>> >>)

\* the probe element of measureColumns
Probe == SpanNode("<span probe>", <<"M">>)

\* container.appendChild(node) and container.removeChild(node) on the child list
AppendChild(nodes, node) == Append(nodes, node)
RemoveChild(nodes, node) ==
  LET idx == {i \in 1..Len(nodes) : nodes[i] = node}
  IN IF idx = {} THEN nodes
     ELSE LET i == CHOOSE x \in idx : \A y \in idx : x >= y
          IN SubSeq(nodes, 1, i - 1) \o SubSeq(nodes, i + 1, Len(nodes))

\* m is the environment's answer to the probe: the glyph width of "M" and the
\* block's clientWidth less its horizontal padding, in pixels.
\* Returns [cols, pre]: the value returned and the block as the call leaves it.
measureColumns(pre, m) ==
  LET probed == AppendChild(pre.nodes, Probe)
      left == RemoveChild(probed, Probe)
  IN [cols |-> IF m.charW = 0 THEN FALLBACK_COLS ELSE m.avail \div m.charW,
      pre |-> [pre EXCEPT !.nodes = left]]

\* ---- Analysis -----------------------------------------------------------
\* step over the lines' leadingSpaces: the least positive one, else the default
detectIndentStep(lines) ==
  LET sps == {leadingSpaces(lines[i]) : i \in 1..Len(lines)} \ {0}
  IN IF sps = {} THEN DEFAULT_INDENT_STEP
     ELSE CHOOSE x \in sps : \A y \in sps : x <= y

computeCompressedStep(step, cols) ==
  IF cols >= COMPRESS_THRESHOLD \/ step <= MIN_COMPRESSED_STEP THEN step
  ELSE IF cols < COMPRESS_AGGRESSIVE
       THEN Max(step \div 2, MIN_COMPRESSED_STEP)
       ELSE Max(step - 1, MIN_COMPRESSED_STEP)

\* ---- Indent compression -------------------------------------------------
\* The factor computeCompressedStep(step, cols) / step is kept as the pair
\* [num, den]; Math.round(sp * factor) is floor(sp * num / den + 1/2).
RoundMul(sp, factor) == (2 * sp * factor.num + factor.den) \div (2 * factor.den)

\* the body of the second loop of applyIndentFactor for line i;
\* st = [lines, changed, prevNull, prevOrig, prevSp, prevRemoved, prevAligned]
IndentStep(st, i, step, factor) ==
  LET \* the line with its indent sp > 0, whether aligned, and the count to remove
      Compress(orig, sp, aligned, remove) ==
        [lines |-> IF remove > 0
                   THEN [st.lines EXCEPT ![i] = removeNSpaces(st.lines[i], remove)]
                   ELSE st.lines,
         changed |-> st.changed \/ remove > 0,
         prevNull |-> FALSE, prevOrig |-> orig, prevSp |-> sp,
         prevRemoved |-> remove, prevAligned |-> aligned]
      Indented(orig, sp, aligned) ==
        Compress(orig, sp, aligned,
                 IF aligned THEN st.prevRemoved ELSE sp - RoundMul(sp, factor))
      Measured(orig, sp) ==
        IF sp > 0
        THEN LET hasPrevContent == ~st.prevNull /\ sp < Len(st.prevOrig)
                                     /\ st.prevOrig[sp + 1] # " "
             IN Indented(orig, sp,
                         hasPrevContent
                           /\ ((sp > st.prevSp /\ sp - st.prevSp > step)
                               \/ (st.prevAligned /\ sp >= st.prevSp)))
        ELSE [st EXCEPT !.prevNull = FALSE, !.prevOrig = orig, !.prevSp = sp,
                        !.prevRemoved = 0, !.prevAligned = FALSE]
      Line(orig) == Measured(orig, Max(0, SearchNonWhite(orig)))
  IN Line(plain(st.lines[i]))

RECURSIVE IndentLoop(_, _, _, _)
IndentLoop(st, i, step, factor) ==
  IF st.prevSp < 0 \/ i > Len(st.lines) THEN st
  ELSE IndentLoop(IndentStep(st, i, step, factor), i + 1, step, factor)

\* returns [lines, changed]: the lines array after the in-place updates and
\* the value returned
applyIndentFactor(lines, factor) ==
  LET Out(st) == [lines |-> st.lines, changed |-> st.changed]
  IN Out(IndentLoop([lines |-> lines, changed |-> FALSE, prevNull |-> TRUE,
                     prevOrig |-> <<>>, prevSp |-> 0, prevRemoved |-> 0,
                     prevAligned |-> FALSE], 1, detectIndentStep(lines), factor))

\* ---- Block formatter ----------------------------------------------------
\* the `for i` loop of formatBlock from line i; acc = [output, changed]
RECURSIVE OutputLoop(_, _, _, _, _)
OutputLoop(lines, i, cols, lang, acc) ==
  LET Put(broken) ==
        IF ~broken.null
        THEN [output |-> Append(acc.output, broken.html), changed |-> TRUE]
        ELSE [acc EXCEPT !.output = Append(acc.output, toHTML(lines[i]))]
  IN IF Len(acc.output) < 0 \/ i > Len(lines) THEN acc
     ELSE OutputLoop(lines, i + 1, cols, lang, Put(breakLine(lines[i], cols, lang)))

\* formatBlock once the language tag has been read as lang
FormatLang(pre, lang, cols, factor) ==
  LET \* the `if (changed)` at the end, acc = [output, changed]
      Write(acc) ==
        IF acc.changed
        THEN [pre EXCEPT !.orig = IF pre.orig.has THEN pre.orig
                                  ELSE Attr(Serialize(pre.nodes)),
                         !.nodes = Parse(JoinNL(acc.output))]
        ELSE pre
      \* the line loop, ind = [lines, changed] after applyIndentFactor
      Break(ind) == Write(OutputLoop(ind.lines, 1, cols, lang,
                                     [output |-> <<>>, changed |-> ind.changed]))
      Lines(lines) ==
        IF Len(lines) > MAX_LINES THEN pre
        ELSE Break(IF factor.num < factor.den THEN applyIndentFactor(lines, factor)
                   ELSE [lines |-> lines, changed |-> FALSE])
  IN IF lang \in SKIP_LANGS THEN pre ELSE Lines(extractLines(pre.nodes))

\* formatBlock comparing the language tag as written (no toLowerCase)
formatBlock_caseSensitive(pre, cols, factor) == FormatLang(pre, pre.lang, cols, factor)

formatBlock(pre, cols, factor) == FormatLang(pre, toLowerCase(pre.lang), cols, factor)

\* ---- Init & resize ------------------------------------------------------
\* restoreAll that leaves every block as the last pass left it
restoreAll_none(pres) == pres

restoreAll(pres) ==
  [i \in 1..Len(pres) |->
     IF pres[i].orig.has THEN [pres[i] EXCEPT !.nodes = Parse(pres[i].orig.val)]
     ELSE pres[i]]

\* the first processable block of the factor loop of formatAll, 0 if none
FirstProcessable(pres) ==
  LET idx == {j \in 1..Len(pres) :
                /\ toLowerCase(pres[j].lang) \notin SKIP_LANGS
                /\ Len(extractLines(pres[j].nodes)) <= MAX_LINES}
  IN IF idx = {} THEN 0 ELSE CHOOSE j \in idx : \A k \in idx : j <= k

\* the global indent factor of formatAll, as [num, den]
GlobalFactor(pres, cols) ==
  LET Factor(step) == [num |-> computeCompressedStep(step, cols), den |-> step]
      From(j) == IF j = 0 THEN [num |-> 1, den |-> 1]
                 ELSE Factor(detectIndentStep(extractLines(pres[j].nodes)))
  IN From(FirstProcessable(pres))

\* formatAll on the page's blocks, the probe answering m
formatAll(pres, m) ==
  LET Format(measured, cols, factor) ==
        [i \in 1..Len(measured) |-> formatBlock(measured[i], cols, factor)]
      Measured(measured, cols) ==
        IF cols <= 0 \/ cols >= MAX_COLS THEN measured
        ELSE Format(measured, cols, GlobalFactor(measured, cols))
      Probed(restored, probe) == Measured([restored EXCEPT ![1] = probe.pre], probe.cols)
      Restored(restored) ==
        IF Len(restored) = 0 THEN restored
        ELSE Probed(restored, measureColumns(restored[1], m))
  IN Restored(restoreAll(pres))

\* ---- The pages modelled --------------------------------------------------
Txt_c1 ==
  <<" ", "(", "c", "o", "n", "n", "e", "c", "t", "i", "o", "n", "_", "i",
    "s", "_", "r", "e", "a", "d", "y", " ", "&", "&", " ", "b", "u", "f",
    "f", "e", "r", "_", "h", "a", "s", "_", "c", "a", "p", "a", "c", "i",
    "t", "y", "(", "b", "u", "f", ",", " ", "l", "e", "n", ")", ")", " ",
    "{", "\n", " ", " ", " ", " ">>
Txt_c2 ==
  <<" ", "s", "e", "n", "d", "(", "b", "u", "f", ",", " ", "l", "e", "n",
    ")", ";", "\n", "}">>
Txt_bash ==
  <<" ", "r", "u", "n", " ", "-", "-", "r", "m", " ", "-", "v", " ", "/",
    "d", "a", "t", "a", ":", "/", "d", "a", "t", "a", " ", "-", "p", " ",
    "8", "0", "8", "0", ":", "8", "0", "8", "0", " ", "m", "y", "i", "m",
    "a", "g", "e">>
Txt_asm ==
  <<"m", "o", "v", " ", "e", "a", "x", ",", " ", "[", "e", "b", "x", " ",
    "+", " ", "4", "*", "e", "c", "x", "]", " ", ";", " ", "l", "o", "a",
    "d", " ", "t", "h", "e", " ", "e", "l", "e", "m", "e", "n", "t", "\n",
    " ", " ", " ", " ", "r", "e", "t">>
Txt_cpp1 ==
  <<" ", "f", "(", ")", " ", "{", "\n", " ", " ", " ", " ", "i", "n", "t",
    " ", "x", " ", "=", " ", "g", "(", "a", "l", "p", "h", "a", ",", "\n",
    " ", " ", " ", " ", " ", " ", " ", " ", " ", " ", " ", " ", " ", " ",
    "b", "e", "t", "a", ")", ";", "\n", " ", " ", " ", " ">>
Txt_cpp2 ==
  <<" ", "(", "x", " ", "<", " ", "1", " ", "&", "&", " ", "x", " ", ">",
    " ", "0", ")", " ", "{", "\n", " ", " ", " ", " ", " ", " ", " ", " ",
    "x", " ", "=", " ", "h", "(", "x", ",", " ", "\"", "a", ",", " ", "b",
    "\"", ")", ";", "\n", " ", " ", " ", " ", "}", "\n", "}">>
Txt_tab1 ==
  <<"\t", "i", "f", " ", "(", "a", ")", " ", "{", "\n", "\t", "\t">>
Txt_tab2 ==
  <<" ", "=", " ", "c", "o", "m", "p", "u", "t", "e", "(", "f", "i", "r",
    "s", "t", ",", " ", "s", "e", "c", "o", "n", "d", ")", ";", "\n", "\t",
    "}">>
Txt_make ==
  <<"a", "l", "l", ":", "\n", "\t", "\t", "c", "c", " ", "m", "a", "i",
    "n", ".", "c">>
Txt_plain ==
  <<"t", "a", "r", "g", "e", "t", "(", "a", "l", "p", "h", "a", ",", " ",
    "b", "e", "t", "a", ")", ";", " ", "s", "e", "c", "o", "n", "d", "(",
    "g", "a", "m", "m", "a", ",", " ", "d", "e", "l", "t", "a", ",", " ",
    "e", "p", "s", "i", "l", "o", "n", ")", "\n", " ", " ", "e", "n", "d">>
Txt_ld ==
  <<" ", " ", "r", "o", "m", " ", "(", "r", "x", ")", " ", ":", " ", "O",
    "R", "I", "G", "I", "N", " ", "=", " ", "0", ",", " ", "L", "E", "N",
    "G", "T", "H", " ", "=", " ", "2", "5", "6", "K">>
Txt_list ==
  <<"a", ",", " ", "b", ",", " ", "c", ",", " ", "d", ",", " ", "e", ",",
    " ", "f", ",", " ", "g", ",", " ", "h", ",", " ", "i", ",", " ", "j",
    ",", " ", "k", ",", " ", "l", ",", " ", "m">>
Txt_nest ==
  <<"f", "(", "g", "(", "b", ")", ",", " ", "c", ",", " ", "d", ")">>

BlkC ==
  Block("c", << SpanNode("<span s1>", <<"i", "f">>), TextNode(Txt_c1),
                SpanNode("<span s1>", <<"r", "e", "t", "u", "r", "n">>),
                TextNode(Txt_c2) >>)

BlkBash ==
  Block("bash", << SpanNode("<span s2>", <<"d", "o", "c", "k", "e", "r">>),
                   TextNode(Txt_bash) >>)

BlkAsm == Block("ASM", << TextNode(Txt_asm) >>)

BlkCpp ==
  Block("cpp", << SpanNode("<span s3>", <<"i", "n", "t">>), TextNode(Txt_cpp1),
                  SpanNode("<span s1>", <<"w", "h", "i", "l", "e">>),
                  TextNode(Txt_cpp2) >>)

BlkTab ==
  Block("C", << TextNode(Txt_tab1), SpanNode("<span s2>", <<"r">>),
                TextNode(Txt_tab2) >>)

BlkMake == Block("make", << TextNode(Txt_make) >>)

BlkPlain == Block("", << TextNode(Txt_plain) >>)

Blocks == {BlkC, BlkBash, BlkAsm, BlkCpp, BlkTab, BlkMake, BlkPlain}

\* the most blocks on a page
MaxBlocks == 2

Pages == UNION {[1..n -> Blocks] : n \in 1..MaxBlocks}

\* what the probe can answer: no glyph width (hidden), or a width in pixels
Measures ==
  {[charW |-> 0, avail |-> 0]}
    \cup {[charW |-> 8, avail |-> a] : a \in {-5, 165, 243, 275, 323, 483, 1603}}

\* ---- The lines modelled --------------------------------------------------
\* the lines of the blocks above, a linker-script line, a long list and a
\* call with a nested call among its arguments
CatLines ==
  UNION {{extractLines(blk.nodes)[k] : k \in 1..Len(extractLines(blk.nodes))} :
           blk \in Blocks}
    \cup {<<Seg(Txt_ld, "")>>, <<Seg(Txt_list, "")>>, <<Seg(Txt_nest, "")>>}

CatLangs == {"c", "bash", "nix", "cmake", "ld", ""}
CatCols == {5, 8, 20, 30}

\* short lines put together from words
Words ==
  { <<"x">>,
    <<" ">>,
    <<",", " ">>,
    <<"f", "(">>,
    <<")">>,
    <<" ", "&", "&", " ">>,
    <<"\"", "a", ",", " ", "b", "\"">>,
    <<"'", "c", " ", "d", "'">>,
    <<"\"", "\\", "\"", " ", "\"">> }
\* the most words of such a line
MaxTok == 3

WordSeqs == UNION {[1..n -> Words] : n \in 1..MaxTok}

\* the line <code> yields for the words ws; styled: the second word is a span
WordLine(ws, styled) ==
  LET nodes == IF styled /\ Len(ws) >= 2
               THEN <<TextNode(ws[1]), SpanNode("<span s1>", ws[2])>>
                      \o (IF Len(ws) > 2
                          THEN <<TextNode(Concat(SubSeq(ws, 3, Len(ws))))>> ELSE <<>>)
               ELSE <<TextNode(Concat(ws))>>
  IN extractLines(nodes)[1]

GenLines == {WordLine(ws, st) : ws \in WordSeqs, st \in BOOLEAN}
GenLangs == {"c", "bash", "cmake"}
GenCols == {4, 7}

\* <<line, lang, cols>>: the calls of breakLine modelled
LineCalls == (GenLines \X GenLangs \X GenCols) \cup (CatLines \X CatLangs \X CatCols)

\* ---- The earlier revision's break search ---------------------------------
\* leadingSpaces of the earlier revision: the leading " " characters only
leadingSpaces_old(line) == CountSp(plain(line))

inQuotes(text, pos) ==
  Cardinality({i \in 0..(pos - 1) :
                 i < Len(text) /\ text[i + 1] = "\"" /\ (i = 0 \/ text[i] # "\\")}) % 2 = 1

\* minPos || 1
FloorOf(minPos) == IF minPos = 0 THEN 1 ELSE minPos

findSpaceBreak(text, maxCols, minPos) ==
  LET idx == {i \in FloorOf(minPos)..(Min(Len(text), maxCols) - 1) :
                text[i + 1] = " " /\ ~inQuotes(text, i)}
  IN IF idx = {} THEN -1 ELSE CHOOSE i \in idx : \A j \in idx : i >= j

\* the candidate of one rule in findPatternBreak, -1 when the rule is passed over
PatternCandidate(text, maxCols, lang, floor, rl) ==
  LET idx == LastIndexOf(text, rl.pat, Min(Len(text), maxCols) - 1)
      sp == IF rl.mode = "after" THEN idx + Len(rl.pat) ELSE idx
  IN IF idx < floor THEN -1
     ELSE IF lang = "cmake" /\ inQuotes(text, idx) THEN -1
     ELSE IF SingleArgSkip(text, idx, rl.pat) THEN -1
     ELSE IF sp <= floor \/ sp >= Len(text) THEN -1
     ELSE sp

findPatternBreak(text, maxCols, lang, minPos) ==
  LET rules == RULES(lang)
      cands == {PatternCandidate(text, maxCols, lang, FloorOf(minPos), rules[r]) :
                  r \in 1..Len(rules)} \cup {-1}
      best == CHOOSE x \in cands : \A y \in cands : x >= y
  IN IF best > 0 THEN best ELSE -1

findBreak(text, maxCols, lang, minPos) ==
  IF lang \in SPACE_BREAK_LANGS THEN findSpaceBreak(text, maxCols, minPos)
  ELSE findPatternBreak(text, maxCols, lang, minPos)

\* ---- The state machines --------------------------------------------------
VARIABLES
  page,      \* the <pre data-lang> blocks: language tag, child nodes of <code>, data-original
  pristine,  \* the markup each block was served with
  phase,     \* "loading" until the animation-frame callback of init has run
  timer,     \* the debounce timer: "none" or "pending"
  lastM,     \* the probe's answer in the last pass, [ran |-> FALSE] before any
  mutated,   \* per block: has some pass changed its content
  npass,     \* passes run so far, counted up to 2
  job        \* one call of breakLine (or of the earlier findBreak) and its locals

vars == <<page, pristine, phase, timer, lastM, mutated, npass, job>>

pageVars == <<page, pristine, phase, timer, lastM, mutated, npass>>

NoJob == [kind |-> "none"]

\* ---- The page -------------------------------------------------------------
Init ==
  /\ page \in Pages
  /\ pristine = [i \in 1..Len(page) |-> Serialize(page[i].nodes)]
  /\ phase = "loading"
  /\ timer = "none"
  /\ lastM = [ran |-> FALSE, m |-> [charW |-> 0, avail |-> 0]]
  /\ mutated = [i \in 1..Len(page) |-> FALSE]
  /\ npass = 0
  /\ job = NoJob

\* one run of formatAll, the probe answering m
Pass(m) ==
  LET Ran(restored, after) ==
        /\ page' = after
        /\ lastM' = [ran |-> TRUE, m |-> m]
        /\ mutated' = [i \in 1..Len(page) |->
                         mutated[i]
                           \/ Serialize(after[i].nodes) # Serialize(restored[i].nodes)]
        /\ npass' = Min(npass + 1, 2)
        /\ UNCHANGED <<pristine, job>>
  IN Ran(restoreAll(page), formatAll(page, m))

\* init: the animation-frame callback formats and starts listening
Load ==
  /\ phase = "loading"
  /\ \E m \in Measures : Pass(m)
  /\ phase' = "ready"
  /\ UNCHANGED timer

\* onResize: the pending timer is cleared and a new one set
OnResize ==
  /\ phase = "ready"
  /\ timer' = "pending"
  /\ UNCHANGED <<page, pristine, phase, lastM, mutated, npass, job>>

\* the debounce timer expires: formatAll
TimerFire ==
  /\ timer = "pending"
  /\ \E m \in Measures : Pass(m)
  /\ timer' = "none"
  /\ UNCHANGED phase

Next == Load \/ OnResize \/ TimerFire

Spec == Init /\ [][Next]_vars

\* no page: the variables of the page while a single call is followed
NoPage ==
  /\ page = <<>>
  /\ pristine = <<>>
  /\ phase = "loading"
  /\ timer = "none"
  /\ lastM = [ran |-> FALSE, m |-> [charW |-> 0, avail |-> 0]]
  /\ mutated = <<>>
  /\ npass = 0

\* ---- One call of breakLine, an iteration at a time -------------------------
\* line, lang, cols: the arguments; pc: "entry", "loop", then "null" (returned
\* null before the loop) or "done"; b: the locals of the loop; out: the value
\* returned.  Kept beside the locals, for the properties below:
\*   scanned  the text the last iteration handed to scanChunk (didScan: it did)
\*   cis      the continuation indent of each accepted break, in order
\*   gaps     the number of spaces stripLeading dropped after each accepted break
\*   pad      the length of the pad the remainder starts with
\*   origin   the offset in the line of the remainder's first character past its pad
\*   at       the offset in the line of the last accepted break
LineStart(l, g, c) ==
  [kind |-> "breakLine", line |-> l, lang |-> g, cols |-> c, pc |-> "entry",
   b |-> BreakStart(l), indent |-> 0, fallbackCI |-> 0,
   out |-> [null |-> TRUE, html |-> <<>>],
   scanned |-> <<>>, didScan |-> FALSE, cis |-> <<>>, gaps |-> <<>>,
   pad |-> 0, origin |-> 0, at |-> -1]

LineInit ==
  /\ NoPage
  /\ job \in {LineStart(c[1], c[2], c[3]) : c \in LineCalls}

\* breakLine up to its loop
Enter ==
  /\ job.pc = "entry"
  /\ LET text == plain(job.line)
         indent == leadingSpaces(job.line)
     IN job' = IF Len(text) <= Budget(job.cols, job.lang)
               THEN [job EXCEPT !.pc = "null"]
               ELSE [job EXCEPT !.pc = "loop", !.indent = indent,
                                !.fallbackCI = defaultContIndent(job.lang, text, indent)]
  /\ UNCHANGED pageVars

\* the call after one more iteration of the loop and, on leaving it, the rest
\* of breakLine
Iterated ==
  LET Ran(rt, nb) ==
        LET gap == CountSp(SliceFrom(rt, nb.bp))
            at == job.origin + (nb.bp - job.pad)
        IN [job EXCEPT
              !.b = nb,
              !.pc = IF nb.pc = "loop" THEN "loop" ELSE "done",
              !.out = IF nb.pc = "loop" THEN job.out ELSE BreakResult(nb),
              !.scanned = rt,
              !.didScan = nb.exit \notin {"splits", "fits"},
              !.cis = IF nb.accepted THEN Append(job.cis, nb.ci) ELSE job.cis,
              !.gaps = IF nb.accepted THEN Append(job.gaps, gap) ELSE job.gaps,
              !.pad = IF nb.accepted THEN nb.ci ELSE job.pad,
              !.origin = IF nb.accepted THEN at + gap ELSE job.origin,
              !.at = IF nb.accepted THEN at ELSE job.at]
  IN Ran(plain(job.b.rem),
         BreakIter(job.b, job.cols, job.lang, job.indent, job.fallbackCI))

\* one iteration of the loop; on leaving it, the rest of breakLine
Iterate ==
  /\ job.pc = "loop"
  /\ job' = Iterated
  /\ UNCHANGED pageVars

LineNext == Enter \/ Iterate

SpecLine == LineInit /\ [][LineNext]_vars

\* ---- The first search of the earlier revision's breakLine -------------------
FindStart(l, g, c) ==
  [kind |-> "findBreak", line |-> l, lang |-> g, cols |-> c, pc |-> "entry", bp |-> -1]

FindInit ==
  /\ NoPage
  /\ job \in {FindStart(c[1], c[2], c[3]) : c \in LineCalls}

\* the earlier breakLine up to the first findBreak of its loop
FirstFind ==
  /\ job.pc = "entry"
  /\ LET text == plain(job.line)
         budget == Budget(job.cols, job.lang)
     IN job' = IF Len(text) <= budget
               THEN [job EXCEPT !.pc = "null"]
               ELSE [job EXCEPT !.pc = "searched",
                                !.bp = findBreak(text, budget, job.lang,
                                                 leadingSpaces_old(job.line) + 1)]
  /\ UNCHANGED pageVars

FindNext == FirstFind

SpecFind == FindInit /\ [][FindNext]_vars

\* ---- Properties ------------------------------------------------------------
\* the quote open after the first p characters of text, "" when none: a quote
\* opens a run, the same quote not preceded by a backslash closes it
RECURSIVE OpenQuote(_, _)
OpenQuote(text, p) ==
  IF p <= 0 THEN ""
  ELSE LET q == OpenQuote(text, p - 1)
           c == text[p]
       IN IF q = "" THEN (IF c = "\"" \/ c = "'" THEN c ELSE "")
          ELSE IF c = q /\ text[p - 1] # "\\" THEN "" ELSE q

\* the page as served: every block with its pristine markup and no snapshot
PristinePage ==
  [i \in 1..Len(page) |->
     [lang |-> page[i].lang, nodes |-> Parse(pristine[i]), orig |-> NoAttr]]

\* the blocks are served as the parser builds them
ServedParsed ==
  phase = "loading" => \A i \in 1..Len(page) : page[i] = PristinePage[i]

\* C1: after any sequence of passes, every block's markup is the markup a single
\* pass at the last measured width produces from the pristine page.
C1_HistoryIndependent ==
  lastM.ran =>
    \A i \in 1..Len(page) :
      Serialize(page[i].nodes) = Serialize(formatAll(PristinePage, lastM.m)[i].nodes)

\* C1 happens: a block an earlier pass had reformatted shows its pristine markup
\* again after a later pass, beside a block that pass reformatted
C1_Witness ==
  /\ npass = 2
  /\ \E i \in 1..Len(page) : mutated[i] /\ Serialize(page[i].nodes) = pristine[i]
  /\ \E i \in 1..Len(page) : Serialize(page[i].nodes) # pristine[i]

\* C2: a block carries data-original if and only if some pass has changed its
\* content, and the attribute's value is the block's pristine markup.
C2_SnapshotIffMutated ==
  \A i \in 1..Len(page) :
    /\ page[i].orig.has <=> mutated[i]
    /\ page[i].orig.has => page[i].orig.val = pristine[i]

\* the half of C2 the code keeps: a snapshot, once attached, is the pristine
\* markup, and a block whose content some pass changed has one
SnapshotIsPristine ==
  \A i \in 1..Len(page) :
    /\ mutated[i] => page[i].orig.has
    /\ page[i].orig.has => page[i].orig.val = pristine[i]

\* the language tags of the excluded assembly dialects, in any case
AsmTags == {"asm", "nasm", "gas", "ASM", "Nasm", "GAS"}

\* C7: a block tagged with an assembly dialect, in whatever case and wherever on
\* the page, keeps its pristine markup and gets no data-original.
C7_AsmUntouched ==
  \A i \in 1..Len(page) :
    page[i].lang \in AsmTags =>
      Serialize(page[i].nodes) = pristine[i] /\ ~page[i].orig.has

\* C7 happens: an assembly block is the first block, measured in two passes, the
\* last of which reformatted the block after it
C7_Witness ==
  /\ npass = 2
  /\ Len(page) = 2
  /\ page[1].lang \in AsmTags
  /\ page[2].orig.has
  /\ Serialize(page[2].nodes) # pristine[2]

\* the column count of the last pass
LastCols == measureColumns(PristinePage[1], lastM.m).cols

\* the number of characters applyIndentFactor took from line k
Removed(before, after, k) == Len(plain(before[k])) - Len(plain(after[k]))

\* the alignment classification in the words of the claim
RECURSIVE AlignmentLine(_, _)
AlignmentLine(lines, k) ==
  /\ k > 1
  /\ leadingSpaces(lines[k]) > 0
  /\ LET sp == leadingSpaces(lines[k])
         prev == plain(lines[k - 1])
     IN /\ sp < Len(prev)
        /\ prev[sp + 1] # " "
        /\ \/ sp - leadingSpaces(lines[k - 1]) > detectIndentStep(lines)
           \/ AlignmentLine(lines, k - 1)

\* C10: under a factor below 1, a line not classified as alignment gets the
\* indent round(indent * factor), and an alignment line loses as many
\* characters as the line before it.
C10_RoundedOrCopied ==
  (lastM.ran /\ LastCols > 0 /\ LastCols < MAX_COLS) =>
    LET factor == GlobalFactor(PristinePage, LastCols) IN
    factor.num < factor.den =>
      \A i \in 1..Len(page) :
        page[i].lang \notin AsmTags =>
          LET before == extractLines(PristinePage[i].nodes)
              after == applyIndentFactor(before, factor).lines
          IN \A k \in 1..Len(before) :
               IF AlignmentLine(before, k)
               THEN Removed(before, after, k) = Removed(before, after, k - 1)
               ELSE leadingSpaces(after[k]) = RoundMul(leadingSpaces(before[k]), factor)

\* ---- Properties of one call of breakLine -----------------------------------
IsText(tok) == ~IsOpenTag(tok) /\ ~IsCloseTag(tok)

\* the text a rendered line shows
Shown(markup) == Unescape(SelectSeq(markup, IsText))

\* the rendered lines of the call's result
Rendered == SplitNL(job.out.html)

\* rendered line k without its continuation marker and its continuation indent
Content(k) ==
  LET t == Shown(Rendered[k])
      unmarked == IF k < Len(Rendered) THEN SliceTo(t, Len(t) - Len(Marker(job.lang)))
                  ELSE t
  IN IF k > 1 THEN SliceFrom(unmarked, job.cis[k - 1]) ELSE unmarked

Returned == job.kind = "breakLine" /\ job.pc = "done" /\ ~job.out.null

\* the loop and the function agree on every call
StepwiseIsBreakLine ==
  job.pc \in {"null", "done"} => job.out = breakLine(job.line, job.cols, job.lang)

\* C3 as claimed: the rendered lines, less markup, continuation markers,
\* continuation indent and line breaks, are the line's text, character for character.
C3_NothingLost ==
  Returned =>
    Concat([k \in 1..Len(Rendered) |-> Content(k)]) = plain(job.line)

\* C3: the rendered lines, less markup, continuation markers, continuation
\* indent and line breaks, are the line's text less the spaces that stood right
\* at each break offset; putting those spaces back gives the line's text.
C3_OnlyBreakSpacesLost ==
  Returned =>
    /\ Len(Rendered) = Len(job.cis) + 1
    /\ Concat([k \in 1..Len(Rendered) |->
                 Content(k) \o (IF k < Len(Rendered) THEN Spaces(job.gaps[k]) ELSE <<>>)])
         = plain(job.line)

\* C3 happens: a line broken twice, a space dropped at a break, styled text in it
C3_Witness ==
  /\ Returned
  /\ Len(job.cis) >= 2
  /\ \E k \in 1..Len(job.gaps) : job.gaps[k] > 0
  /\ \E s \in 1..Len(job.line) : job.line[s].open # ""

\* the printable length of a rendered line
PrintLen(markup) == Len(Shown(markup))

\* C4 as claimed: every line of the chain, pieces with their marker and the
\* final remainder, is within the effective budget, unless the scanner found no
\* eligible break.
C4_WithinBudget ==
  (Returned /\ job.b.exit \notin {"nobreak", "atend"}) =>
    \A k \in 1..Len(Rendered) : PrintLen(Rendered[k]) <= Budget(job.cols, job.lang)

\* C4: every piece is within the effective budget before its marker and within
\* cols with it; the final remainder is within the budget when the loop ended on
\* the remainder fitting, and exceeds it only when the loop ended for want of a
\* break, on a break at the last character, on a break that did not shrink the
\* remainder, or on MAX_SPLITS.
C4_PiecesWithinBudget ==
  job.pc \in {"loop", "done"} =>
    /\ \A k \in 1..Len(job.b.pieces) :
         /\ PrintLen(job.b.pieces[k]) - Len(Marker(job.lang)) <= Budget(job.cols, job.lang)
         /\ PrintLen(job.b.pieces[k]) <= job.cols
    /\ job.pc = "done" =>
         /\ job.b.exit = "fits" => Len(plain(job.b.rem)) <= Budget(job.cols, job.lang)
         /\ Len(plain(job.b.rem)) > Budget(job.cols, job.lang)
              => job.b.exit \in {"nobreak", "atend", "noshrink", "splits"}

\* C4 happens: a chain in a marker language, ended on the remainder fitting,
\* with a piece that fills the budget
C4_Witness ==
  /\ Returned
  /\ job.lang \in BACKSLASH_LANGS
  /\ job.b.exit = "fits"
  /\ \E k \in 1..Len(job.b.pieces) :
       PrintLen(job.b.pieces[k]) > Budget(job.cols, job.lang)

\* the last iteration accepted a break
Accepted == job.kind = "breakLine" /\ job.pc \in {"loop", "done"} /\ job.b.accepted

\* the single-argument override applies to the break just accepted
Overridden ==
  /\ Min(job.b.ps.col + PAREN_OFFSET, job.cols \div 2) > job.fallbackCI
  /\ ~job.b.hasArgSep

C6_HalfBudget ==
  Accepted => job.b.ci <= Budget(job.cols, job.lang) \div 2

\* C6: the continuation indent of an accepted break is at most half of cols,
\* the measured column count, in every language and on every branch.
C6_HalfCols ==
  Accepted => job.b.ci >= 0 /\ job.b.ci <= job.cols \div 2

\* C6 happens: a marker language, the indent at half of cols and above half of
\* the effective budget
C6_Witness ==
  /\ Accepted
  /\ job.lang \in BACKSLASH_LANGS
  /\ job.b.ci = job.cols \div 2
  /\ job.b.ci > Budget(job.cols, job.lang) \div 2

\* the unquoted spaces the scanner may break at
OpenSpaces(text, floor, budget) ==
  {p \in (floor + 1)..Min(budget, Len(text) - 1) :
     text[p + 1] = " " /\ OpenQuote(text, p) = ""}

\* C9: in a space-delimited language the scanner returns the rightmost space
\* outside quoted runs with floor < position <= budget, and null when there is none.
C9_RightmostOpenSpace ==
  (job.kind = "breakLine" /\ job.didScan /\ job.lang \in SPACE_BREAK_LANGS) =>
    LET open == OpenSpaces(job.scanned, job.b.floor, Budget(job.cols, job.lang))
    IN IF open = {} THEN job.b.bp = -1
       ELSE /\ job.b.bp \in open
            /\ \A p \in open : p <= job.b.bp

\* C9 happens: a space-delimited line with a quoted run holding a space within
\* the budget and punctuation the rule tables would break at, broken at a space
C9_Witness ==
  /\ Accepted
  /\ job.lang \in SPACE_BREAK_LANGS
  /\ \E p \in 1..(Len(job.scanned) - 1) :
       /\ p <= Budget(job.cols, job.lang)
       /\ job.scanned[p + 1] = " "
       /\ OpenQuote(job.scanned, p) # ""
  /\ \E p \in 1..job.b.bp : job.scanned[p] \in {",", "("}

\* the scanner never returns an offset inside a quoted run, of the fragment it
\* scans or of the line the fragment comes from
ScanOutsideQuotes ==
  (job.kind = "breakLine" /\ job.didScan /\ job.b.bp >= 0) =>
    /\ OpenQuote(job.scanned, job.b.bp) = ""
    /\ job.b.accepted => OpenQuote(plain(job.line), job.at) = ""

\* C8: no break offset the search selects lies inside a quoted run.
C8_NoBreakInQuotes ==
  (job.kind = "findBreak" /\ job.pc = "searched" /\ job.bp >= 0) =>
    OpenQuote(plain(job.line), job.bp) = ""

\* ---- The debounce timer, with time -------------------------------------------
\* The browser's timer table is a set of [id, due]; `handle` is the id the
\* script's variable `timer` holds (0: undefined).  Time is counted in
\* milliseconds and advances TickMs at a step.
TickMs == 50
MaxTimeMs == 450
MaxResize == 3

\* clearTimeout that cancels nothing
clearTimeout_none(timers, id) == timers

clearTimeout(timers, id) == {t \in timers : t.id # id}

setTimeout(timers, id, due) == timers \cup {[id |-> id, due |-> due]}

\* now: the clock; events: resize events heard so far; lastEvent: the time of
\* the last one (-1: none); burst: the number of events of the current burst
\* (each less than DEBOUNCE_MS after the one before, no pass in between);
\* sinceEvent: passes the timer has run since the last event; lastPassAt: the
\* time of the last such pass
TimedStart ==
  [kind |-> "resize", now |-> 0, timers |-> {}, handle |-> 0, nextId |-> 1,
   events |-> 0, lastEvent |-> -1, burst |-> 0, sinceEvent |-> 0, lastPassAt |-> -1]

TimedInit ==
  /\ NoPage
  /\ job = TimedStart

\* init: the animation-frame callback formats and starts listening
TimedLoad ==
  /\ phase = "loading"
  /\ \E m \in Measures : page' = formatAll(page, m)
  /\ phase' = "ready"
  /\ UNCHANGED <<pristine, timer, lastM, mutated, npass, job>>

\* onResize: clearTimeout(timer); timer = setTimeout(formatAll, DEBOUNCE_MS)
TimedResize ==
  /\ phase = "ready"
  /\ job.events < MaxResize
  /\ job.now + DEBOUNCE_MS <= MaxTimeMs
  /\ job' = [job EXCEPT
               !.timers = setTimeout(clearTimeout(job.timers, job.handle), job.nextId,
                                     job.now + DEBOUNCE_MS),
               !.handle = job.nextId,
               !.nextId = job.nextId + 1,
               !.events = job.events + 1,
               !.lastEvent = job.now,
               !.burst = IF job.lastEvent >= 0 /\ job.now - job.lastEvent < DEBOUNCE_MS
                            /\ job.sinceEvent = 0
                         THEN job.burst + 1 ELSE 1,
               !.sinceEvent = 0]
  /\ timer' = "pending"
  /\ UNCHANGED <<page, pristine, phase, lastM, mutated, npass>>

\* a timer whose delay has elapsed runs its callback, formatAll (no sooner than
\* due; how much later is the browser's choice)
TimedFire ==
  /\ \E t \in job.timers :
       /\ t.due <= job.now
       /\ job' = [job EXCEPT !.timers = job.timers \ {t},
                             !.sinceEvent = job.sinceEvent + 1,
                             !.lastPassAt = job.now]
       /\ timer' = IF job.timers \ {t} = {} THEN "none" ELSE "pending"
  /\ \E m \in Measures : page' = formatAll(page, m)
  /\ UNCHANGED <<pristine, phase, lastM, mutated, npass>>

\* time passes
Tick ==
  /\ job.now < MaxTimeMs
  /\ job' = [job EXCEPT !.now = job.now + TickMs]
  /\ UNCHANGED pageVars

TimedNext == TimedLoad \/ TimedResize \/ TimedFire \/ Tick

\* time does pass, and the browser does run a callback that is due
SpecTimed ==
  TimedInit /\ [][TimedNext]_vars /\ WF_vars(Tick) /\ WF_vars(TimedFire)

FaultSteps == {"extract", "factor", "compress", "break"}

\* try { formatBlock(pre, cols, factor) } catch (e) { console.error(...) } when
\* `step` throws for this block: [pre, thrown].  formatBlock writes to the
\* DOM only in its last statements, so a throw leaves the block as it was.
tryFormatBlock(pre, cols, factor, step) ==
  IF /\ toLowerCase(pre.lang) \notin SKIP_LANGS
     /\ \/ step = "extract"
        \/ /\ Len(extractLines(pre.nodes)) <= MAX_LINES
           /\ \/ step = "break"
              \/ step = "compress" /\ factor.num < factor.den
  THEN [pre |-> pre, thrown |-> TRUE]
  ELSE [pre |-> formatBlock(pre, cols, factor), thrown |-> FALSE]

\* does the factor loop of formatAll, which runs outside the try, throw
FactorLoopThrows(pres, f) ==
  LET Upto(first) ==
        \/ /\ f.step = "extract"
           /\ f.block \in 1..Len(pres)
           /\ first = 0 \/ f.block <= first
           /\ toLowerCase(pres[f.block].lang) \notin SKIP_LANGS
        \/ f.step = "factor" /\ first # 0 /\ f.block = first
  IN Upto(FirstProcessable(pres))

\* formatAll under the fault f: [page, thrown], thrown being "none", "factor"
\* (the exception left formatAll) or "block" (it was caught in the block loop)
formatAllFaulty(pres, m, f) ==
  LET Format(measured, cols, factor) ==
        LET Tried(t) ==
              [page |-> [i \in 1..Len(measured) |->
                           IF i = f.block THEN t.pre
                           ELSE formatBlock(measured[i], cols, factor)],
               thrown |-> IF t.thrown THEN "block" ELSE "none"]
        IN Tried(tryFormatBlock(measured[f.block], cols, factor, f.step))
      Measured(measured, cols) ==
        IF cols <= 0 \/ cols >= MAX_COLS THEN [page |-> measured, thrown |-> "none"]
        ELSE IF FactorLoopThrows(measured, f) THEN [page |-> measured, thrown |-> "factor"]
        ELSE Format(measured, cols, GlobalFactor(measured, cols))
      Probed(restored, probe) == Measured([restored EXCEPT ![1] = probe.pre], probe.cols)
      Restored(restored) ==
        IF Len(restored) = 0 THEN [page |-> restored, thrown |-> "none"]
        ELSE Probed(restored, measureColumns(restored[1], m))
  IN Restored(restoreAll(pres))

\* the pages and widths followed under a fault
FaultPages ==
  {<<b1, b2>> : b1 \in {BlkC, BlkAsm, BlkPlain}, b2 \in {BlkC, BlkBash, BlkCpp}}
FaultMeasures == {[charW |-> 8, avail |-> a] : a \in {165, 323, 1603}}

FaultInit ==
  /\ page \in FaultPages
  /\ pristine = [i \in 1..Len(page) |-> Serialize(page[i].nodes)]
  /\ phase = "loading"
  /\ timer = "none"
  /\ lastM = [ran |-> FALSE, m |-> [charW |-> 0, avail |-> 0]]
  /\ mutated = [i \in 1..Len(page) |-> FALSE]
  /\ npass = 0
  /\ job = NoJob

\* one run of formatAll under a fault; job keeps the page the pass started
\* from, the probe's answer, the fault and what became of the exception
FaultyPass ==
  \E m \in FaultMeasures, blk \in 1..Len(page), st \in FaultSteps :
    LET Ran(f, r) ==
          /\ page' = r.page
          /\ job' = [kind |-> "pass", before |-> page, m |-> m, fault |-> f,
                     thrown |-> r.thrown]
          /\ lastM' = [ran |-> TRUE, m |-> m]
          /\ npass' = Min(npass + 1, 2)
          /\ UNCHANGED <<pristine, mutated>>
    IN Ran([block |-> blk, step |-> st],
           formatAllFaulty(page, m, [block |-> blk, step |-> st]))

FaultyLoad ==
  /\ phase = "loading"
  /\ FaultyPass
  /\ phase' = "ready"
  /\ UNCHANGED timer

FaultyResize ==
  /\ phase = "ready"
  /\ npass < 2
  /\ timer' = "pending"
  /\ UNCHANGED <<page, pristine, phase, lastM, mutated, npass, job>>

FaultyFire ==
  /\ timer = "pending"
  /\ FaultyPass
  /\ timer' = "none"
  /\ UNCHANGED phase

FaultNext == FaultyLoad \/ FaultyResize \/ FaultyFire

SpecFault == FaultInit /\ [][FaultNext]_vars

\* an exception thrown inside formatBlock is contained: the other blocks come
\* out as in the pass without the fault, the failing block shows its markup
FaultInBlockContained ==
  (job.kind = "pass" /\ job.thrown = "block") =>
    /\ \A i \in 1..Len(page) :
         i # job.fault.block => page[i] = formatAll(job.before, job.m)[i]
    /\ Serialize(page[job.fault.block].nodes) = pristine[job.fault.block]

\* C12: when a step of a pass throws for one block, every other block is
\* formatted as in the pass without the failure, and the failing block shows
\* its original markup.
C12_FaultContained ==
  (job.kind = "pass" /\ job.thrown # "none") =>
    /\ \A i \in 1..Len(page) :
         i # job.fault.block => page[i] = formatAll(job.before, job.m)[i]
    /\ Serialize(page[job.fault.block].nodes) = pristine[job.fault.block]

\* ---- Passes at the ends of the column range --------------------------------
\* a C block of one line wider than MAX_COLS: "x, " over and over
WideLen == 204
Txt_wide ==
  [i \in 1..WideLen |-> CASE i % 3 = 1 -> "x" [] i % 3 = 2 -> "," [] OTHER -> " "]
BlkWide == Block("c", <<TextNode(Txt_wide)>>)

WidePages == {<<BlkWide>>, <<BlkC, BlkWide>>, <<BlkWide, BlkBash>>, <<BlkAsm, BlkWide>>}

\* probe answers giving -1, 0, 1, 20, 199, 200 and 201 columns
WideMeasures ==
  {[charW |-> 8, avail |-> a] : a \in {-8, 0, 8, 160, 1592, 1600, 1608}}

WideInit ==
  /\ page \in WidePages
  /\ pristine = [i \in 1..Len(page) |-> Serialize(page[i].nodes)]
  /\ phase = "loading"
  /\ timer = "none"
  /\ lastM = [ran |-> FALSE, m |-> [charW |-> 0, avail |-> 0]]
  /\ mutated = [i \in 1..Len(page) |-> FALSE]
  /\ npass = 0
  /\ job = NoJob

WideLoad ==
  /\ phase = "loading"
  /\ \E m \in WideMeasures : Pass(m)
  /\ phase' = "ready"
  /\ UNCHANGED timer

WideFire ==
  /\ timer = "pending"
  /\ \E m \in WideMeasures : Pass(m)
  /\ timer' = "none"
  /\ UNCHANGED phase

WideNext == WideLoad \/ OnResize \/ WideFire

SpecWide == WideInit /\ [][WideNext]_vars

\* every block shows its pristine markup
AllPristine == \A i \in 1..Len(page) : Serialize(page[i].nodes) = pristine[i]

\* every block shows what formatBlock makes of its pristine markup at cols
AllFormatted(cols) ==
  LET Under(factor) ==
        \A i \in 1..Len(page) :
          Serialize(page[i].nodes)
            = Serialize(formatBlock(PristinePage[i], cols, factor).nodes)
  IN Under(GlobalFactor(PristinePage, cols))

\* what the code does: the pass is skipped from MAX_COLS columns on
SkippedFromMaxCols ==
  lastM.ran =>
    IF LastCols <= 0 \/ LastCols >= MAX_COLS THEN AllPristine
    ELSE AllFormatted(LastCols)

\* C13: a pass leaves every block with its original markup when the measured
\* column count is <= 0 or above MAX_COLS, and reformats the blocks at every
\* column count from 1 through MAX_COLS.
C13_SkippedOutsideOnly ==
  lastM.ran =>
    IF LastCols <= 0 \/ LastCols > MAX_COLS THEN AllPristine
    ELSE AllFormatted(LastCols)

\* ---- The floor of the indentation ---------------------------------------------
\* the leading-space count of a line
SpaceIndent(line) == CountSp(plain(line))

\* the lines a pass at the last measured width leaves of block i's lines, after
\* indent compression and before breaking
CompressedLines(i) ==
  LET Under(factor, before) ==
        IF factor.num < factor.den THEN applyIndentFactor(before, factor).lines
        ELSE before
  IN Under(GlobalFactor(PristinePage, LastCols), extractLines(PristinePage[i].nodes))

\* block i's own unit is at least 2, and no line of it that had an indent of at
\* least 2 has less after compression
FloorKept(i) ==
  LET Kept(before, after) ==
        (/\ \E k \in 1..Len(before) : SpaceIndent(before[k]) > 0
         /\ \A k \in 1..Len(before) :
              SpaceIndent(before[k]) > 0 => SpaceIndent(before[k]) >= 2)
          => \A k \in 1..Len(before) :
               SpaceIndent(before[k]) >= 2 => SpaceIndent(after[k]) >= 2
  IN Kept(extractLines(PristinePage[i].nodes), CompressedLines(i))

\* the floor holds in the block the factor is derived from
FloorInFirstBlock ==
  (lastM.ran /\ LastCols > 0 /\ LastCols < MAX_COLS) =>
    \A i \in 1..Len(page) :
      i = FirstProcessable(PristinePage) => FloorKept(i)

\* C14: after a pass at any width, in every block whose own indent unit is at
\* least 2, every line that had an indent of at least 2 still has one of at
\* least 2, whichever block the page-wide factor was derived from.
C14_IndentFloor ==
  (lastM.ran /\ LastCols > 0 /\ LastCols < MAX_COLS) =>
    \A i \in 1..Len(page) :
      page[i].lang \notin AsmTags => FloorKept(i)

\* ---- The scanner's result against its candidates --------------------------------
\* the offsets the claim calls candidates: of a rule match at an offset outside
\* the quoted runs, not skipped by the single-argument test, past the floor,
\* short of the end and within maxCols
Candidates(text, lang, floor, maxCols) ==
  LET rules == IF lang \in SPACE_BREAK_LANGS THEN SPACE_RULES ELSE RULES(lang)
      At(i, rl) == IF rl.mode = "after" THEN i + Len(rl.pat) ELSE i
  IN {bp \in (floor + 1)..Min(maxCols, Len(text) - 1) :
        \E i \in 0..(Len(text) - 1), r \in 1..Len(rules) :
          /\ At(i, rules[r]) = bp
          /\ OpenQuote(text, i) = ""
          /\ text[i + 1] \notin {"\"", "'"}
          /\ i + Len(rules[r].pat) <= Len(text)
          /\ SubSeq(text, i + 1, i + Len(rules[r].pat)) = rules[r].pat
          /\ ~SingleArgSkip(text, i, rules[r].pat)}

\* the bracket state after the first n characters of text, from init: brackets
\* outside quoted runs count, a closer that brings the depth to 0 clears col
RECURSIVE ScanState(_, _, _)
ScanState(text, n, init) ==
  IF n <= 0 THEN init
  ELSE LET Then(s, c) ==
             IF OpenQuote(text, n - 1) # "" \/ c \in {"\"", "'"} THEN s
             ELSE IF c \in {"(", "[", "{"} THEN [depth |-> s.depth + 1, col |-> n - 1]
             ELSE IF c \in {")", "]", "}"}
             THEN IF s.depth <= 1 THEN [depth |-> 0, col |-> -1]
                  ELSE [depth |-> s.depth - 1, col |-> s.col]
             ELSE s
       IN Then(ScanState(text, n - 1, init), text[n])

\* the C line of the worked example
ExampleLine == extractLines(BlkC.nodes)[1]

\* C15: an iteration's scan returns the greatest candidate, null exactly when
\* there is none, with the bracket state of the text before the offset scanned
\* from the state handed in; on the example line at 30 columns that is offset
\* 23 with depth 1, col 3, and the continuation is indented to column 4.
C15_ScanMaxCandidate ==
  [][(job.kind = "breakLine" /\ job.pc = "loop" /\ job'.didScan) =>
       LET Max_(cands) == CHOOSE x \in cands : \A y \in cands : y <= x
           Found(cands) ==
             /\ cands = {} <=> job'.b.bp = -1
             /\ cands # {} =>
                  /\ job'.b.bp = Max_(cands)
                  /\ job'.b.accepted =>
                       job'.b.ps = ScanState(job'.scanned, job'.b.bp, job.b.ps)
       IN /\ Found(Candidates(job'.scanned, job.lang, job'.b.floor,
                              Budget(job.cols, job.lang)))
          /\ (job.line = ExampleLine /\ job.lang = "c" /\ job.cols = 30
                /\ job.b.pieces = <<>>) =>
               /\ job'.b.bp = 23
               /\ job'.b.ps = [depth |-> 1, col |-> 3]
               /\ job'.b.ci = 4]_vars

\* C15 happens: the example line has been broken at 23 inside its bracket, and
\* a later scan of a remainder started from a non-zero depth
C15_Witness ==
  /\ job.kind = "breakLine"
  /\ job.line = ExampleLine /\ job.lang = "c" /\ job.cols = 30
  /\ Len(job.b.pieces) >= 2
  /\ job.b.accepted
  /\ job.b.prevDepth > 0

\* ---- The bracket state ------------------------------------------------------------
\* the columns of the brackets open after the first n characters of text,
\* innermost last: an opener outside the quoted runs is pushed, a closer pops
RECURSIVE OpenStack(_, _)
OpenStack(text, n) ==
  IF n <= 0 THEN <<>>
  ELSE LET Then(st, c) ==
             IF OpenQuote(text, n - 1) # "" \/ c \in {"\"", "'"} THEN st
             ELSE IF c \in {"(", "[", "{"} THEN Append(st, n - 1)
             ELSE IF c \in {")", "]", "}"} /\ st # <<>> THEN SubSeq(st, 1, Len(st) - 1)
             ELSE st
       IN Then(OpenStack(text, n - 1), text[n])

\* the part the code keeps: the depth is never negative and col is -1 exactly
\* at depth 0
DepthColConsistent ==
  (job.kind = "breakLine" /\ job.pc # "entry") =>
    /\ job.b.ps.depth >= 0
    /\ job.b.ps.col = -1 <=> job.b.ps.depth = 0

\* C16: in every bracket state the scanner returns, the depth is not negative,
\* col is -1 exactly at depth 0, and at a depth above 0 col is the column of
\* the innermost bracket still open (when that bracket is in the text scanned).
C16_InnermostOpen ==
  (job.kind = "breakLine" /\ job.b.accepted) =>
    LET Holds(ps, st) ==
          /\ ps.depth >= 0
          /\ ps.col = -1 <=> ps.depth = 0
          /\ (ps.depth > 0 /\ st # <<>>) => ps.col = st[Len(st)]
    IN Holds(job.b.ps, OpenStack(job.scanned, job.b.bp))

\* ---- C17: breakLine ends, with at most MAX_SPLITS breaks -------------------
\* the calls followed to their return: the lines of the blocks and the long
\* lists, in every language and at every width of the catalogue
RunInit ==
  /\ NoPage
  /\ job \in {LineStart(c[1], c[2], c[3]) : c \in CatLines \X CatLangs \X CatCols}

\* breakLine is one synchronous call: once entered it runs on. Iterate is
\* enabled exactly when job.pc = "loop", and its weak fairness is written out
\* with that enabling condition.
SpecLineRun ==
  /\ RunInit
  /\ [][LineNext]_vars
  /\ WF_vars(Enter)
  /\ ([]<>(job.pc # "loop") \/ []<><<Iterate>>_vars)

\* the call has returned
Left == job.kind = "breakLine" /\ job.pc \in {"null", "done"}

\* the break just accepted left a remainder shorter than the text it was cut from
Shrunk == Len(plain(job.b.rem)) < Len(job.scanned)

\* C17 as claimed: at most MAX_SPLITS breaks are accepted, and every break kept
\* in the output leaves a flattened remainder strictly shorter than the one
\* before it.
C17_ShrinkingBreaks ==
  job.kind = "breakLine" =>
    /\ Len(job.b.pieces) <= MAX_SPLITS
    /\ (Accepted => Shrunk)

\* C17, amended: breakLine returns on every line, language and positive column
\* count; it accepts at most MAX_SPLITS breaks, so that a line becomes at most
\* MAX_SPLITS + 1 rendered lines; every accepted break after which the loop goes
\* on has strictly shortened the flattened remainder, and a break that has not is
\* still kept in the output but is the last one of the line.
C17_Terminates ==
  /\ <>Left
  /\ [](job.kind = "breakLine" =>
          /\ job.cols > 0
          /\ Len(job.b.pieces) <= MAX_SPLITS
          /\ job.b.splits \in -1..MAX_SPLITS
          /\ (Returned => Len(Rendered) <= MAX_SPLITS + 1)
          /\ (Accepted /\ job.pc = "loop" => Shrunk)
          /\ (Accepted /\ ~Shrunk => job.pc = "done" /\ job.b.exit = "noshrink"))

\* a line has been broken MAX_SPLITS times and the loop was left by its count
C17_Witness ==
  /\ Returned
  /\ Len(job.b.pieces) = MAX_SPLITS
  /\ Len(Rendered) = MAX_SPLITS + 1
  /\ job.b.exit = "splits"

\* ---- C18: removeNSpaces on its own ------------------------------------------
\* the texts and the opening tags a segment of the calls modelled can have
MaxSegs == 2
MaxN == 4
SegTexts ==
  {<<>>, <<" ">>, <<" ", " ">>, <<"x">>, <<" ", "x">>, <<"x", " ">>,
   <<" ", " ", "x">>, <<"\t">>, <<" ", "x", " ", " ", "y">>}
SegOpens == {"", "<span s1>", "<span s2>"}

RemoveSegs == {Seg(t, o) : t \in SegTexts, o \in SegOpens}

\* the lines of up to MaxSegs segments
RemoveLines == UNION {[1..k -> RemoveSegs] : k \in 0..MaxSegs}

RemoveStart(l, n) == [kind |-> "removeNSpaces", line |-> l, n |-> n, pc |-> "call", out |-> <<>>]

RemoveInit ==
  /\ NoPage
  /\ job \in {RemoveStart(l, n) : l \in RemoveLines, n \in 0..MaxN}

\* removeNSpaces(line, n)
Remove ==
  /\ job.kind = "removeNSpaces"
  /\ job.pc = "call"
  /\ job' = [job EXCEPT !.pc = "done", !.out = removeNSpaces(job.line, job.n)]
  /\ UNCHANGED pageVars

SpecRemove == RemoveInit /\ [][Remove]_vars

RemoveDone == job.kind = "removeNSpaces" /\ job.pc = "done"

\* the opening tags of the styled segments of a line, in order
RECURSIVE Styles(_)
Styles(line) ==
  IF line = <<>> THEN <<>>
  ELSE (IF line[1].open # "" THEN <<line[1].open>> ELSE <<>>) \o Styles(Tail(line))

\* the styled segments survive, and nothing but spaces is taken
StylesAndInkKept ==
  RemoveDone =>
    /\ Styles(job.out) = Styles(job.line)
    /\ SelectSeq(plain(job.out), LAMBDA c : c # " ")
         = SelectSeq(plain(job.line), LAMBDA c : c # " ")
    /\ Len(plain(job.line)) - Len(plain(job.out)) <= job.n

\* with no more spaces asked for than the line leads with, exactly those go
ExactWithinLeading ==
  (RemoveDone /\ job.n <= CountSp(plain(job.line))) =>
    plain(job.out) = SliceFrom(plain(job.line), job.n)

\* C18 as claimed: removeNSpaces(line, n) removes exactly min(n, leading-space
\* count) characters, all of them leading spaces of the flattened line: the
\* flattened result is the flattened input less that prefix of spaces, and every
\* styled segment of the input is still present.
C18_ExactLeadingSpaces ==
  RemoveDone =>
    /\ plain(job.out)
         = SliceFrom(plain(job.line), Min(job.n, CountSp(plain(job.line))))
    /\ Styles(job.out) = Styles(job.line)

\* ---- C19: no empty continuation ----------------------------------------------
\* rendered line k shows a character of the line other than a space
HasInk(k) == \E i \in 1..Len(Content(k)) : Content(k)[i] # " "

\* every piece pushed shows a character other than a space
PiecesHaveInk ==
  Returned => \A k \in 1..(Len(Rendered) - 1) : HasInk(k)

\* C19 as claimed: every rendered line of a chain breakLine returns, each piece
\* and the final remainder, contains a non-space character of the original
\* line, also when the line ends in spaces.
C19_NoEmptyContinuation ==
  Returned => \A k \in 1..Len(Rendered) : HasInk(k)

\* ---- C20: indent compression deletes leading indentation only ----------------
\* the characters of a line, each with the opening tag of its segment
StyledChars(line) ==
  Concat([i \in 1..Len(line) |->
            [j \in 1..Len(line[i].text) |-> <<line[i].open, line[i].text[j]>>]])

\* line k after compression is line k before it less r characters of its
\* whitespace prefix, 0 <= r <= the line's indent count; what follows keeps its
\* characters, their order and their styling; a line of indent 0 is untouched
\* and no indent grows
PrefixOnly(before, after, k) ==
  LET Less(r) ==
        /\ 0 <= r
        /\ r <= leadingSpaces(before[k])
        /\ StyledChars(after[k]) = SliceFrom(StyledChars(before[k]), r)
        /\ leadingSpaces(before[k]) = 0 => after[k] = before[k]
        /\ leadingSpaces(after[k]) <= leadingSpaces(before[k])
  IN Less(Len(plain(before[k])) - Len(plain(after[k])))

\* the whitespace line k starts with is made of spaces
SpaceIndented(before, k) == leadingSpaces(before[k]) = SpaceIndent(before[k])

\* compression deletes indentation only in the lines indented with spaces
PrefixOnlyOfSpaces ==
  (lastM.ran /\ LastCols > 0 /\ LastCols < MAX_COLS) =>
    \A i \in 1..Len(page) :
      page[i].lang \notin AsmTags =>
        \A k \in 1..Len(CompressedLines(i)) :
          SpaceIndented(extractLines(PristinePage[i].nodes), k) =>
            PrefixOnly(extractLines(PristinePage[i].nodes), CompressedLines(i), k)

\* C20 as claimed: applyIndentFactor removes from each line between 0 and the
\* line's indent count characters, all from the whitespace before its first
\* visible character, and leaves the rest of the line, its order and styling
\* as they were; lines of indent 0 are untouched and no indent grows; tab
\* indented lines and alignment lines included.
C20_OnlyIndentDeleted ==
  (lastM.ran /\ LastCols > 0 /\ LastCols < MAX_COLS) =>
    \A i \in 1..Len(page) :
      page[i].lang \notin AsmTags =>
        \A k \in 1..Len(CompressedLines(i)) :
          PrefixOnly(extractLines(PristinePage[i].nodes), CompressedLines(i), k)
====
